---- MODULE Spec2Model ----
(***************************************************************************)
(* The session state machine of the adventure engine (GameState), with the *)
(* condition evaluator and the state mutator of Choice it calls, over a    *)
(* small project graph; the validation and publication of a project; the   *)
(* conversions of conditions and the cloning of a choice.                  *)
(*                                                                         *)
(* Python objects are modelled with their identity where the code relies   *)
(* on it: a list stored in a session's variables is a cell of `heap`, and  *)
(* the variables mapping holds a reference to it, so that dict.copy()      *)
(* (a shallow copy) and list.append / list.remove (in place) behave as in  *)
(* the interpreter.                                                        *)
(***************************************************************************)
EXTENDS Integers, Sequences, FiniteSets, TLC

VARIABLES sessions, heap, is_start_node, last, nodes, choices, published

vars == <<sessions, heap, is_start_node, last, nodes, choices, published>>

----------------------------------------------------------------------------
(* Bounds of the model.                                                    *)

\* The size of the session store: see Size.
MaxSize == 6

----------------------------------------------------------------------------
(* Dynamic values: None, bool, int, str, list.  A list inside a variables  *)
(* mapping is a reference RefV(a) to heap[a]; ListV is the list as a value.*)

NoneV == [t |-> "null"]
IntV(n) == [t |-> "int", i |-> n]
StrV(x) == [t |-> "str", s |-> x]
BoolV(x) == [t |-> "bool", b |-> x]
ListV(q) == [t |-> "list", l |-> q]
RefV(a) == [t |-> "ref", a |-> a]

\* The strings of the model, in Python's (lexicographic) str order.
StrOrder == <<"", "10", "a", "ab", "b">>

StrRank(x) == CHOOSE k \in 1..Len(StrOrder) : StrOrder[k] = x

\* x in y for two str: x is a substring of y.
Substr(x, y) ==
  \E p \in 1..Len(StrOrder), q \in 1..Len(StrOrder) :
    StrOrder[p] \o x \o StrOrder[q] = y

\* bool(v)
Truthy(v) ==
  CASE v.t = "null" -> FALSE
    [] v.t = "int" -> v.i # 0
    [] v.t = "str" -> v.s # ""
    [] v.t = "bool" -> v.b
    [] v.t = "list" -> v.l # <<>>

\* v, with the `or d` left out.
NoDefault(v, d) == v

\* v or d
OrDefault(v, d) == IF Truthy(v) THEN v ELSE d

\* bool is a subclass of int: True is 1, False is 0.
IsNum(v) == v.t \in {"int", "bool"}

NumOf(v) == IF v.t = "int" THEN v.i ELSE IF v.b THEN 1 ELSE 0

RECURSIVE PyEq(_, _)
\* a == b
PyEq(a, b) ==
  IF IsNum(a) /\ IsNum(b) THEN NumOf(a) = NumOf(b)
  ELSE IF a.t = "list" /\ b.t = "list"
    THEN /\ Len(a.l) = Len(b.l)
         /\ \A k \in 1..Len(a.l) : PyEq(a.l[k], b.l[k])
  ELSE a = b

Sign(n) == IF n < 0 THEN 0 - 1 ELSE IF n > 0 THEN 1 ELSE 0

RECURSIVE PyCmp(_, _)
\* The ordering of a and b: c is -1, 0 or 1; raised when Python raises
\* TypeError ('<' not supported between instances ...).
PyCmp(a, b) ==
  IF IsNum(a) /\ IsNum(b)
    THEN [raised |-> FALSE, c |-> Sign(NumOf(a) - NumOf(b))]
  ELSE IF a.t = "str" /\ b.t = "str"
    THEN [raised |-> FALSE, c |-> Sign(StrRank(a.s) - StrRank(b.s))]
  ELSE IF a.t = "list" /\ b.t = "list"
    THEN LET n == IF Len(a.l) < Len(b.l) THEN Len(a.l) ELSE Len(b.l)
             diff == {k \in 1..n : ~PyEq(a.l[k], b.l[k])}
         IN IF diff = {}
              THEN [raised |-> FALSE, c |-> Sign(Len(a.l) - Len(b.l))]
              ELSE LET k == CHOOSE j \in diff : \A m \in diff : j <= m
                   IN PyCmp(a.l[k], b.l[k])
  ELSE [raised |-> TRUE, c |-> 0]

\* x in container
PyIn(x, container) ==
  CASE container.t = "str" ->
         IF x.t = "str"
           THEN [raised |-> FALSE, result |-> Substr(x.s, container.s)]
           ELSE [raised |-> TRUE, result |-> FALSE]
    [] container.t = "list" ->
         [raised |-> FALSE,
          result |-> \E k \in 1..Len(container.l) : PyEq(x, container.l[k])]
    [] OTHER -> [raised |-> TRUE, result |-> FALSE]

\* d.get(k, default) on a mapping
Get(d, k, default) == IF k \in DOMAIN d THEN d[k] ELSE default

Ok(b) == [raised |-> FALSE, result |-> b]

Neg(r) == [raised |-> r.raised, result |-> ~r.raised /\ ~r.result]

\* The loop body with an unknown operator counted as satisfied.
EvaluateConditionFailOpen(condition, game_state) ==
  LET variable == Get(condition, "variable", "")
      operator == Get(condition, "operator", "eq")
      expected_value == Get(condition, "value", NoneV)
      current_value == Get(game_state, variable, NoneV)
      cmp == PyCmp(OrDefault(current_value, IntV(0)),
                   OrDefault(expected_value, IntV(0)))
      Rel(ok) == [raised |-> cmp.raised, result |-> ~cmp.raised /\ ok]
  IN CASE operator = "eq" -> Ok(PyEq(current_value, expected_value))
       [] operator = "ne" -> Ok(~PyEq(current_value, expected_value))
       [] operator = "gt" -> Rel(cmp.c > 0)
       [] operator = "gte" -> Rel(cmp.c >= 0)
       [] operator = "lt" -> Rel(cmp.c < 0)
       [] operator = "lte" -> Rel(cmp.c <= 0)
       [] operator = "contains" ->
            PyIn(expected_value, OrDefault(current_value, StrV("")))
       [] operator = "not_contains" ->
            Neg(PyIn(expected_value, OrDefault(current_value, StrV(""))))
       [] operator = "in" ->
            PyIn(current_value, OrDefault(expected_value, ListV(<<>>)))
       [] operator = "not_in" ->
            Neg(PyIn(current_value, OrDefault(expected_value, ListV(<<>>))))
       [] operator = "exists" -> Ok(variable \in DOMAIN game_state)
       [] operator = "not_exists" -> Ok(variable \notin DOMAIN game_state)
       [] OTHER -> Ok(TRUE)

\* One pass of the loop of Choice._evaluate_conditions: the result of one
\* serialized condition under game_state (a mapping of values).
EvaluateCondition(condition, game_state) ==
  LET variable == Get(condition, "variable", "")
      operator == Get(condition, "operator", "eq")
      expected_value == Get(condition, "value", NoneV)
      current_value == Get(game_state, variable, NoneV)
      cmp == PyCmp(OrDefault(current_value, IntV(0)),
                   OrDefault(expected_value, IntV(0)))
      Rel(ok) == [raised |-> cmp.raised, result |-> ~cmp.raised /\ ok]
  IN CASE operator = "eq" -> Ok(PyEq(current_value, expected_value))
       [] operator = "ne" -> Ok(~PyEq(current_value, expected_value))
       [] operator = "gt" -> Rel(cmp.c > 0)
       [] operator = "gte" -> Rel(cmp.c >= 0)
       [] operator = "lt" -> Rel(cmp.c < 0)
       [] operator = "lte" -> Rel(cmp.c <= 0)
       [] operator = "contains" ->
            PyIn(expected_value, OrDefault(current_value, StrV("")))
       [] operator = "not_contains" ->
            Neg(PyIn(expected_value, OrDefault(current_value, StrV(""))))
       [] operator = "in" ->
            PyIn(current_value, OrDefault(expected_value, ListV(<<>>)))
       [] operator = "not_in" ->
            Neg(PyIn(current_value, OrDefault(expected_value, ListV(<<>>))))
       [] operator = "exists" -> Ok(variable \in DOMAIN game_state)
       [] operator = "not_exists" -> Ok(variable \notin DOMAIN game_state)
       [] OTHER -> Ok(FALSE)

\* Choice._evaluate_conditions: every condition is evaluated (the results
\* are collected before all() is taken), so a TypeError in any of them
\* propagates; otherwise the conjunction.
EvaluateConditions(conditions, game_state) ==
  IF conditions = <<>> THEN Ok(TRUE)
  ELSE LET results == [k \in 1..Len(conditions) |->
                         EvaluateCondition(conditions[k], game_state)]
       IN IF \E k \in 1..Len(conditions) : results[k].raised
            THEN [raised |-> TRUE, result |-> FALSE]
            ELSE Ok(\A k \in 1..Len(conditions) : results[k].result)

\* is_available with the conditions ignored.
IsAvailableIgnoringConditions(conditions, game_state) == Ok(TRUE)

\* Choice.is_available
IsAvailable(conditions, game_state) ==
  IF conditions = <<>> THEN Ok(TRUE)
  ELSE EvaluateConditions(conditions, game_state)

\* The members of the enumeration ConditionOperator, by their values.
ConditionOperator ==
  {"eq", "ne", "gt", "gte", "lt", "lte", "contains", "not_contains",
   "in", "not_in", "exists", "not_exists"}

\* Condition.evaluate with an exists that tests the stored value.
EvaluateExistsByValue(self, game_state) ==
  LET current_value == Get(game_state, self.variable, NoneV)
      expected_value == self.value
      cmp == PyCmp(OrDefault(current_value, IntV(0)),
                   OrDefault(expected_value, IntV(0)))
      Rel(ok) == [raised |-> cmp.raised, result |-> ~cmp.raised /\ ok]
  IN CASE self.operator = "eq" -> Ok(PyEq(current_value, expected_value))
       [] self.operator = "ne" -> Ok(~PyEq(current_value, expected_value))
       [] self.operator = "gt" -> Rel(cmp.c > 0)
       [] self.operator = "gte" -> Rel(cmp.c >= 0)
       [] self.operator = "lt" -> Rel(cmp.c < 0)
       [] self.operator = "lte" -> Rel(cmp.c <= 0)
       [] self.operator = "contains" ->
            PyIn(expected_value, OrDefault(current_value, StrV("")))
       [] self.operator = "not_contains" ->
            Neg(PyIn(expected_value, OrDefault(current_value, StrV(""))))
       [] self.operator = "in" ->
            PyIn(current_value, OrDefault(expected_value, ListV(<<>>)))
       [] self.operator = "not_in" ->
            Neg(PyIn(current_value, OrDefault(expected_value, ListV(<<>>))))
       [] self.operator = "exists" -> Ok(current_value # NoneV)
       [] self.operator = "not_exists" -> Ok(current_value = NoneV)
       [] OTHER -> Ok(FALSE)

\* Condition.evaluate, on a Condition with the attributes variable,
\* operator and value.  operator is a member of ConditionOperator, written
\* by its value, or anything else, which equals no member.
Evaluate(self, game_state) ==
  LET current_value == Get(game_state, self.variable, NoneV)
      expected_value == self.value
      cmp == PyCmp(OrDefault(current_value, IntV(0)),
                   OrDefault(expected_value, IntV(0)))
      Rel(ok) == [raised |-> cmp.raised, result |-> ~cmp.raised /\ ok]
  IN CASE self.operator = "eq" -> Ok(PyEq(current_value, expected_value))
       [] self.operator = "ne" -> Ok(~PyEq(current_value, expected_value))
       [] self.operator = "gt" -> Rel(cmp.c > 0)
       [] self.operator = "gte" -> Rel(cmp.c >= 0)
       [] self.operator = "lt" -> Rel(cmp.c < 0)
       [] self.operator = "lte" -> Rel(cmp.c <= 0)
       [] self.operator = "contains" ->
            PyIn(expected_value, OrDefault(current_value, StrV("")))
       [] self.operator = "not_contains" ->
            Neg(PyIn(expected_value, OrDefault(current_value, StrV(""))))
       [] self.operator = "in" ->
            PyIn(current_value, OrDefault(expected_value, ListV(<<>>)))
       [] self.operator = "not_in" ->
            Neg(PyIn(current_value, OrDefault(expected_value, ListV(<<>>))))
       [] self.operator = "exists" -> Ok(self.variable \in DOMAIN game_state)
       [] self.operator = "not_exists" ->
            Ok(self.variable \notin DOMAIN game_state)
       [] OTHER -> Ok(FALSE)

\* evaluate_conditions_list: all() over a generator, which stops at the
\* first condition that is false; a condition after it is not evaluated,
\* and a TypeError before it propagates.
RECURSIVE EvaluateConditionsList(_, _)
EvaluateConditionsList(conditions, game_state) ==
  IF conditions = <<>> THEN Ok(TRUE)
  ELSE LET r == Evaluate(Head(conditions), game_state)
       IN IF r.raised THEN r
          ELSE IF ~r.result THEN Ok(FALSE)
          ELSE EvaluateConditionsList(Tail(conditions), game_state)

\* Condition.to_json_dict: the four keys, the operator by its value.
ToJsonDict(self) ==
  [variable |-> self.variable,
   operator |-> self.operator,
   value |-> self.value,
   description |-> self.description]

\* Condition.from_json_dict: data.get for each key; ConditionOperator(...)
\* raises ValueError for a string that is the value of no member, and the
\* except clause puts EQ in its place.
FromJsonDict(data) ==
  LET operator_str == Get(data, "operator", "eq")
  IN [variable |-> Get(data, "variable", ""),
      operator |-> IF operator_str \in ConditionOperator
                     THEN operator_str ELSE "eq",
      value |-> Get(data, "value", NoneV),
      description |-> Get(data, "description", NoneV)]

\* conditions_from_json_list
ConditionsFromJsonList(json_conditions) ==
  [k \in 1..Len(json_conditions) |-> FromJsonDict(json_conditions[k])]

----------------------------------------------------------------------------
(* Lists in memory.                                                        *)

\* A new list object: the first free address.
Alloc(h) == CHOOSE a \in 1..(Cardinality(DOMAIN h) + 1) : a \notin DOMAIN h

\* The variables mapping as values: every reference replaced by the
\* contents of its list.
Deref(state, h) ==
  [k \in DOMAIN state |->
     IF state[k].t = "ref" THEN ListV(h[state[k].a]) ELSE state[k]]

\* d[k] = v
Put(d, k, v) == [x \in DOMAIN d \cup {k} |-> IF x = k THEN v ELSE d[x]]

RECURSIVE StrTimes(_, _)
\* s * n for a str
StrTimes(x, n) == IF n <= 0 THEN "" ELSE x \o StrTimes(x, n - 1)

RECURSIVE ListTimes(_, _)
\* q * n for a list
ListTimes(q, n) == IF n <= 0 THEN <<>> ELSE q \o ListTimes(q, n - 1)

\* remove that drops every element equal to value.
ListRemoveAll(q, value) == SelectSeq(q, LAMBDA x : ~PyEq(x, value))

\* list.remove(value): drops the first element equal to value; the list is
\* left as it is when there is none (the ValueError is swallowed).
ListRemove(q, value) ==
  LET hits == {k \in 1..Len(q) : PyEq(q[k], value)}
  IN IF hits = {} THEN q
     ELSE LET k == CHOOSE j \in hits : \A m \in hits : j <= m
          IN SubSeq(q, 1, k - 1) \o SubSeq(q, k + 1, Len(q))

\* add, subtract and multiply that store the operand itself.
ArithAsSet(operation, st, variable, value) ==
  [st EXCEPT !.state = Put(st.state, variable, value)]

\* (new_state.get(variable, 0) or 0) <op> value, for add, subtract and
\* multiply.  The operands of the modelled state changes are scalars.
Arith(operation, st, variable, value) ==
  LET got == Get(st.state, variable, IntV(0))
      cur == IF got.t = "ref"
               THEN (IF st.heap[got.a] # <<>> THEN got ELSE IntV(0))
               ELSE OrDefault(got, IntV(0))
      Store(v) == [st EXCEPT !.state = Put(st.state, variable, v)]
      Raise == [st EXCEPT !.raised = TRUE]
  IN CASE operation = "add" ->
            IF IsNum(cur) /\ IsNum(value)
              THEN Store(IntV(NumOf(cur) + NumOf(value)))
            ELSE IF cur.t = "str" /\ value.t = "str"
              THEN Store(StrV(cur.s \o value.s))
            ELSE Raise
       [] operation = "subtract" ->
            IF IsNum(cur) /\ IsNum(value)
              THEN Store(IntV(NumOf(cur) - NumOf(value)))
            ELSE Raise
       [] operation = "multiply" ->
            IF IsNum(cur) /\ IsNum(value)
              THEN Store(IntV(NumOf(cur) * NumOf(value)))
            ELSE IF cur.t = "str" /\ IsNum(value)
              THEN Store(StrV(StrTimes(cur.s, NumOf(value))))
            ELSE IF IsNum(cur) /\ value.t = "str"
              THEN Store(StrV(StrTimes(value.s, NumOf(cur))))
            ELSE IF cur.t = "ref" /\ IsNum(value)
              THEN LET a == Alloc(st.heap)
                   IN [raised |-> FALSE,
                       state |-> Put(st.state, variable, RefV(a)),
                       heap |-> Put(st.heap, a,
                                    ListTimes(st.heap[cur.a], NumOf(value)))]
            ELSE Raise

\* The loop body with an append that turns a value that is not a list
\* into a list.
ApplyChangeCoercing(st, variable, change) ==
  IF "t" \in DOMAIN change
    THEN [st EXCEPT !.state = Put(st.state, variable, change)]
  ELSE
    LET operation == Get(change, "operation", "set")
        value == Get(change, "value", IntV(0))
    IN CASE operation = "set" ->
              [st EXCEPT !.state = Put(st.state, variable, value)]
         [] operation \in {"add", "subtract", "multiply"} ->
              Arith(operation, st, variable, value)
         [] operation = "append" ->
              LET a == Alloc(st.heap)
                  s1 == IF \/ variable \notin DOMAIN st.state
                           \/ st.state[variable].t # "ref"
                          THEN [st EXCEPT
                                  !.state = Put(st.state, variable, RefV(a)),
                                  !.heap = Put(st.heap, a, <<>>)]
                          ELSE st
                  v == s1.state[variable]
              IN [s1 EXCEPT !.heap[v.a] = Append(s1.heap[v.a], value)]
         [] operation = "remove" ->
              IF variable \in DOMAIN st.state /\ st.state[variable].t = "ref"
                THEN LET a == st.state[variable].a
                     IN [st EXCEPT !.heap[a] = ListRemove(st.heap[a], value)]
                ELSE st
         [] OTHER -> st

\* One pass of the loop of Choice.apply_state_changes, on new_state
\* (st.state) and the lists it refers to (st.heap).  A change is either a
\* dict {operation, value} or a literal value.
ApplyChange(st, variable, change) ==
  IF "t" \in DOMAIN change
    THEN [st EXCEPT !.state = Put(st.state, variable, change)]
  ELSE
    LET operation == Get(change, "operation", "set")
        value == Get(change, "value", IntV(0))
    IN CASE operation = "set" ->
              [st EXCEPT !.state = Put(st.state, variable, value)]
         [] operation \in {"add", "subtract", "multiply"} ->
              Arith(operation, st, variable, value)
         [] operation = "append" ->
              LET a == Alloc(st.heap)
                  s1 == IF variable \notin DOMAIN st.state
                          THEN [st EXCEPT
                                  !.state = Put(st.state, variable, RefV(a)),
                                  !.heap = Put(st.heap, a, <<>>)]
                          ELSE st
                  v == s1.state[variable]
              IN IF v.t = "ref"
                   THEN [s1 EXCEPT !.heap[v.a] = Append(s1.heap[v.a], value)]
                   ELSE s1
         [] operation = "remove" ->
              IF variable \in DOMAIN st.state /\ st.state[variable].t = "ref"
                THEN LET a == st.state[variable].a
                     IN [st EXCEPT !.heap[a] = ListRemove(st.heap[a], value)]
                ELSE st
         [] OTHER -> st

RECURSIVE ApplyChanges(_, _)
\* The loop over state_changes.items(), in the dict's order; an exception
\* ends it.
ApplyChanges(st, items) ==
  IF items = <<>> \/ st.raised THEN st
  ELSE ApplyChanges(ApplyChange(st, Head(items).variable, Head(items).change),
                    Tail(items))

\* apply_state_changes that builds the result from an empty mapping.
ApplyStateChangesFromEmpty(state_changes, game_state, h) ==
  IF state_changes = <<>>
    THEN [raised |-> FALSE, state |-> game_state, heap |-> h]
    ELSE ApplyChanges([raised |-> FALSE, state |-> [x \in {} |-> NoneV],
                       heap |-> h],
                      state_changes)

\* Choice.apply_state_changes on the variables mapping game_state and the
\* memory h.  state is the mapping returned (meaningless when raised); heap
\* is the memory after the call, whether it returned or raised.
ApplyStateChanges(state_changes, game_state, h) ==
  IF state_changes = <<>>
    THEN [raised |-> FALSE, state |-> game_state, heap |-> h]
    ELSE ApplyChanges([raised |-> FALSE, state |-> game_state, heap |-> h],
                      state_changes)

\* The variables mapping, given by value, laid out in a memory of its own.
Load(values) ==
  LET ks == {k \in DOMAIN values : values[k].t = "list"}
      at == CHOOSE f \in [ks -> 1..Cardinality(ks)] :
              \A x \in ks, y \in ks : f[x] = f[y] => x = y
  IN [state |-> [k \in DOMAIN values |->
                   IF k \in ks THEN RefV(at[k]) ELSE values[k]],
      heap |-> [a \in 1..Cardinality(ks) |->
                  values[CHOOSE k \in ks : at[k] = a].l]]

\* The mapping that apply_state_changes returns for state_changes on the
\* variables `values`, given and returned by value.
ApplyValue(state_changes, values) ==
  LET m == Load(values)
      r == ApplyStateChanges(state_changes, m.state, m.heap)
  IN [raised |-> r.raised, state |-> Deref(r.state, r.heap)]

----------------------------------------------------------------------------
(* The stored graph: two projects, their nodes, and the choices of the     *)
(* nodes.  choices of a node are listed in the order of the node's         *)
(* `choices` collection (insertion order).                                 *)

NoNode == "None"

EmptyMap == [x \in {} |-> NoneV]

Projects == {"p1", "p2"}

ProjectIds == Projects \cup {"p0"}

Players == {"u1"}

SaveNames == {"slot1"}

\* The rows of game_nodes the sessions play on: project_id and is_end_node
\* of each node (is_start_node is the variable of that name).
StoredNodes ==
  [n1 |-> [project_id |-> "p1", is_end_node |-> FALSE],
   n2 |-> [project_id |-> "p1", is_end_node |-> TRUE]]

Nodes == DOMAIN nodes

NodeProject == [n \in Nodes |-> nodes[n].project_id]

is_end_node == [n \in Nodes |-> nodes[n].is_end_node]

Cond(variable, operator, value) ==
  [variable |-> variable, operator |-> operator, value |-> value]

Op(operation, value) == [operation |-> operation, value |-> value]

Item(variable, change) == [variable |-> variable, change |-> change]

ChoiceTable ==
  [c1 |-> [node_id |-> "n1", target_node_id |-> "n2", display_order |-> 2,
           conditions |-> <<>>,
           state_changes |-> <<Item("tags", Op("append", StrV("a"))),
                               Item("gold", StrV("10"))>>],
   c2 |-> [node_id |-> "n1", target_node_id |-> NoNode, display_order |-> 1,
           conditions |-> <<Cond("gold", "lt", IntV(10))>>,
           state_changes |-> <<>>],
   c3 |-> [node_id |-> "n2", target_node_id |-> "n1", display_order |-> 1,
           conditions |-> <<Cond("tags", "contains", StrV("a"))>>,
           state_changes |-> <<Item("tags", Op("remove", StrV("a"))),
                               Item("gold", Op("add", IntV(5)))>>],
   c4 |-> [node_id |-> "n2", target_node_id |-> "n1", display_order |-> 1,
           conditions |-> <<>>,
           state_changes |-> <<Item("gold", IntV(0))>>],
   c5 |-> [node_id |-> "n2", target_node_id |-> "n1", display_order |-> 3,
           conditions |-> <<Cond("gold", "between", IntV(0))>>,
           state_changes |-> <<>>]]

Choices == DOMAIN ChoiceTable

NodeChoices == [n1 |-> <<"c1", "c2">>, n2 |-> <<"c3", "c4", "c5">>]

----------------------------------------------------------------------------
(* Sessions.                                                               *)

\* What a caller can observe of session s: its fields, with the contents
\* of the lists its variables hold.
View(ss, h, s) ==
  [project_id |-> ss[s].project_id,
   player_id |-> ss[s].player_id,
   current_node_id |-> ss[s].current_node_id,
   variables |-> Deref(ss[s].variables, h),
   choice_history |-> ss[s].choice_history,
   completed |-> ss[s].completed]

\* The list objects still referred to by a session; the others are freed.
Live(ss) ==
  UNION {{ss[s].variables[k].a :
            k \in {x \in DOMAIN ss[s].variables : ss[s].variables[x].t = "ref"}} :
         s \in DOMAIN ss}

Collect(ss, h) == [a \in DOMAIN h \cap Live(ss) |-> h[a]]

\* The last call: the operation, the session it was called on (0 when it
\* is not a call on a session; the new session for create_new_game), its
\* argument (a choice, a project or a save name), how it ended, and the
\* list returned by get_available_choices.
Called(op, sid, arg, status, out) ==
  [op |-> op, sid |-> sid, arg |-> arg, status |-> status, out |-> out]

\* The stored graph of the sessions: the rows above, the choices of
\* ChoiceTable, and no project published.
Stored ==
  /\ nodes = StoredNodes
  /\ choices = ChoiceTable
  /\ published = [p \in Projects |-> FALSE]

Init ==
  /\ Stored
  /\ sessions = <<>>
  /\ heap = EmptyMap
  /\ is_start_node = [n \in Nodes |-> n = "n1"]
  /\ last = Called("init", 0, "", "ok", <<>>)

\* get_start_node without the filter on the project.
GetStartNodeAnyProject(project_id) == {n \in Nodes : is_start_node[n]}

\* Project.get_start_node: the nodes a query for the project's start node
\* can return with .first() (no ordering is asked for).
GetStartNode(project_id) ==
  {n \in Nodes : NodeProject[n] = project_id /\ is_start_node[n]}

RECURSIVE SumLen(_)
SumLen(qs) == IF qs = <<>> THEN 0 ELSE Len(Head(qs)) + SumLen(Tail(qs))

\* The size of the session store: two for each session, and one for each
\* choice recorded in a history.
Size(ss) == 2 * Len(ss) + SumLen([s \in DOMAIN ss |-> ss[s].choice_history])

\* GameState.create_new_game
create_new_game(project_id, player_id) ==
  /\ UNCHANGED <<is_start_node, nodes, choices, published>>
  /\ IF project_id \notin Projects
       THEN /\ last' = Called("create_new_game", 0, project_id, "not_found", <<>>)
            /\ UNCHANGED <<sessions, heap>>
     ELSE IF GetStartNode(project_id) = {}
       THEN /\ last' = Called("create_new_game", 0, project_id,
                              "no_start_node", <<>>)
            /\ UNCHANGED <<sessions, heap>>
     ELSE \E start_node \in GetStartNode(project_id) :
            /\ Size(sessions) + 2 <= MaxSize
            /\ sessions' = Append(sessions,
                 [project_id |-> project_id,
                  player_id |-> player_id,
                  current_node_id |-> start_node,
                  variables |-> EmptyMap,
                  choice_history |-> <<>>,
                  save_name |-> "None",
                  completed |-> "N"])
            /\ last' = Called("create_new_game", Len(sessions) + 1,
                              project_id, "ok", <<>>)
            /\ UNCHANGED heap

\* move_to_node that also ends the game on reaching a node flagged is_end.
move_to_node_end_flag(self, node_id) ==
  [self EXCEPT !.current_node_id = node_id,
               !.completed = IF node_id = NoNode \/ is_end_node[node_id]
                               THEN "Y" ELSE @]

\* GameState.move_to_node, on the session record
move_to_node(self, node_id) ==
  [self EXCEPT !.current_node_id = node_id,
               !.completed = IF node_id = NoNode THEN "Y" ELSE @]

\* add_choice_to_history that inserts at the front.
add_choice_to_history_front(self, choice_id) ==
  [self EXCEPT !.choice_history = <<choice_id>> \o @]

\* GameState.add_choice_to_history, on the session record
add_choice_to_history(self, choice_id) ==
  [self EXCEPT !.choice_history = Append(@, choice_id)]

\* GameState.make_choice
make_choice(sid, c) ==
  LET self == sessions[sid]
      choice == ChoiceTable[c]
      avail == IsAvailable(choice.conditions, Deref(self.variables, heap))
      applied == ApplyStateChanges(choice.state_changes, self.variables, heap)
  IN /\ UNCHANGED <<is_start_node, nodes, choices, published>>
     /\ IF avail.raised
          THEN /\ last' = Called("make_choice", sid, c, "TypeError", <<>>)
               /\ UNCHANGED <<sessions, heap>>
        ELSE IF ~avail.result
          THEN /\ last' = Called("make_choice", sid, c, "unavailable", <<>>)
               /\ UNCHANGED <<sessions, heap>>
        ELSE IF applied.raised
          THEN /\ last' = Called("make_choice", sid, c, "TypeError", <<>>)
               /\ heap' = Collect(sessions, applied.heap)
               /\ UNCHANGED sessions
        ELSE /\ Size(sessions) + 1 <= MaxSize
             /\ sessions' = [sessions EXCEPT ![sid] =
                  move_to_node(
                    add_choice_to_history([self EXCEPT !.variables = applied.state],
                                          c),
                    choice.target_node_id)]
             /\ heap' = Collect(sessions', applied.heap)
             /\ last' = Called("make_choice", sid, c, "ok", <<>>)

\* GameNode.get_available_choices: the choices of the node, in the order of
\* its collection, that are available; raised when an evaluation raises.
NodeAvailableChoices(node, game_state) ==
  LET cs == NodeChoices[node]
      av == [k \in 1..Len(cs) |->
               IsAvailable(ChoiceTable[cs[k]].conditions, game_state)]
  IN [raised |-> \E k \in 1..Len(cs) : av[k].raised,
      out |-> SelectSeq(cs, LAMBDA x :
                 LET r == IsAvailable(ChoiceTable[x].conditions, game_state)
                 IN ~r.raised /\ r.result)]

\* get_available_choices that marks the game completed on an end node.
get_available_choices_ending(sid) ==
  LET self == sessions[sid]
      r == NodeAvailableChoices(self.current_node_id,
                                Deref(self.variables, heap))
  IN /\ UNCHANGED <<heap, is_start_node, nodes, choices, published>>
     /\ IF self.current_node_id = NoNode
          THEN /\ last' = Called("get_available_choices", sid, "", "ok", <<>>)
               /\ UNCHANGED sessions
        ELSE IF r.raised
          THEN /\ last' = Called("get_available_choices", sid, "", "TypeError", <<>>)
               /\ UNCHANGED sessions
        ELSE /\ last' = Called("get_available_choices", sid, "", "ok", r.out)
             /\ sessions' = [sessions EXCEPT ![sid].completed =
                               IF is_end_node[self.current_node_id]
                                 THEN "Y" ELSE @]

\* GameState.get_available_choices
get_available_choices(sid) ==
  LET self == sessions[sid]
      r == NodeAvailableChoices(self.current_node_id,
                                Deref(self.variables, heap))
  IN /\ UNCHANGED <<sessions, heap, is_start_node, nodes, choices, published>>
     /\ IF self.current_node_id = NoNode
          THEN last' = Called("get_available_choices", sid, "", "ok", <<>>)
        ELSE IF r.raised
          THEN last' = Called("get_available_choices", sid, "", "TypeError", <<>>)
        ELSE last' = Called("get_available_choices", sid, "", "ok", r.out)

\* The reset without is_completed = False.
RestartedStillCompleted(self, start_node) ==
  [self EXCEPT !.current_node_id = start_node,
               !.variables = EmptyMap,
               !.choice_history = <<>>]

\* The reset of GameState.restart_game, on the session record
Restarted(self, start_node) ==
  [self EXCEPT !.current_node_id = start_node,
               !.variables = EmptyMap,
               !.choice_history = <<>>,
               !.completed = "N"]

\* GameState.restart_game
restart_game(sid) ==
  LET self == sessions[sid]
  IN /\ UNCHANGED <<is_start_node, nodes, choices, published>>
     /\ IF GetStartNode(self.project_id) = {}
          THEN /\ last' = Called("restart_game", sid, "", "no_start_node", <<>>)
               /\ UNCHANGED <<sessions, heap>>
        ELSE \E start_node \in GetStartNode(self.project_id) :
               /\ sessions' = [sessions EXCEPT ![sid] =
                                  Restarted(self, start_node)]
               /\ heap' = Collect(sessions', heap)
               /\ last' = Called("restart_game", sid, "", "ok", <<>>)

\* A save point built with the column default of completed.
SavePointNotCompleted(self, save_name) ==
  [project_id |-> self.project_id,
   player_id |-> self.player_id,
   current_node_id |-> self.current_node_id,
   variables |-> self.variables,
   choice_history |-> self.choice_history,
   save_name |-> save_name,
   completed |-> "N"]

\* The GameState built by create_save_point: variables.copy() is a new
\* mapping holding the same list objects; choice_history.copy() is a new
\* list of ids.
SavePoint(self, save_name) ==
  [project_id |-> self.project_id,
   player_id |-> self.player_id,
   current_node_id |-> self.current_node_id,
   variables |-> self.variables,
   choice_history |-> self.choice_history,
   save_name |-> save_name,
   completed |-> self.completed]

\* GameState.create_save_point
create_save_point(sid, save_name) ==
  LET self == sessions[sid]
  IN /\ Size(sessions) + 2 + Len(self.choice_history) <= MaxSize
     /\ sessions' = Append(sessions, SavePoint(self, save_name))
     /\ last' = Called("create_save_point", sid, save_name, "ok", <<>>)
     /\ UNCHANGED <<heap, is_start_node, nodes, choices, published>>

\* set_as_start_node without the update of the other nodes.
set_as_start_node_only(n) ==
  /\ is_start_node' = [is_start_node EXCEPT ![n] = TRUE]
  /\ last' = Called("set_as_start_node", 0, n, "ok", <<>>)
  /\ UNCHANGED <<sessions, heap, nodes, choices, published>>

\* GameNode.set_as_start_node
set_as_start_node(n) ==
  /\ is_start_node' = [m \in Nodes |->
       IF m = n THEN TRUE
       ELSE IF NodeProject[m] = NodeProject[n] THEN FALSE
       ELSE is_start_node[m]]
  /\ last' = Called("set_as_start_node", 0, n, "ok", <<>>)
  /\ UNCHANGED <<sessions, heap, nodes, choices, published>>

\* BaseModel.update(session, is_start_node=value) on a node
update_is_start_node(n, value) ==
  /\ is_start_node' = [is_start_node EXCEPT ![n] = value]
  /\ last' = Called("update", 0, "", "ok", <<>>)
  /\ UNCHANGED <<sessions, heap, nodes, choices, published>>

Next ==
  \/ \E project_id \in ProjectIds, player_id \in Players :
       create_new_game(project_id, player_id)
  \/ \E sid \in DOMAIN sessions, c \in Choices : make_choice(sid, c)
  \/ \E sid \in DOMAIN sessions : get_available_choices(sid)
  \/ \E sid \in DOMAIN sessions : restart_game(sid)
  \/ \E sid \in DOMAIN sessions, save_name \in SaveNames :
       create_save_point(sid, save_name)
  \/ \E n \in Nodes : set_as_start_node(n)
  \/ \E n \in Nodes, value \in BOOLEAN : update_is_start_node(n, value)

Spec == Init /\ [][Next]_vars

----------------------------------------------------------------------------
(* Calls of Choice.apply_state_changes on their own: the caller's mapping  *)
(* (last.game_state, its lists in heap) and the change set are drawn from  *)
(* the sets below, and the call records what it returns.                   *)

ApplyVariables == {"gold", "tags"}

ApplyValues ==
  {NoneV, BoolV(TRUE), IntV(0), IntV(10), StrV(""), StrV("a"),
   ListV(<<>>), ListV(<<StrV("a")>>),
   ListV(<<StrV("a"), StrV("b"), StrV("a")>>)}

\* The caller's mappings, by value.
ApplyStates ==
  UNION {[ks -> ApplyValues] : ks \in SUBSET ApplyVariables}

Operations ==
  {"set", "add", "subtract", "multiply", "append", "remove", "toggle"}

OpValues == {IntV(5), IntV(2), StrV("a")}

\* One entry of state_changes: a literal, or a dict with or without its
\* operation and value keys.
Changes ==
  {NoneV, IntV(0), StrV("b")}
    \cup {Op(operation, value) : operation \in Operations, value \in OpValues}
    \cup {[value |-> IntV(5)], [operation |-> "add"]}

\* Change sets of two entries, one for each variable, in either order of
\* the dict.
PairChanges ==
  LET gold == {Op("add", IntV(5)), IntV(0), Op("append", StrV("a")),
               Op("add", StrV("a"))}
      tags == {Op("append", StrV("a")), Op("remove", StrV("a")), StrV("b"),
               Op("multiply", IntV(2))}
  IN UNION {{<<Item("gold", g), Item("tags", t)>>,
             <<Item("tags", t), Item("gold", g)>>} : g \in gold, t \in tags}

ApplyChangeSets ==
  {<<>>} \cup {<<Item(variable, change)>> :
                 variable \in ApplyVariables, change \in Changes}
         \cup PairChanges

InitApply ==
  /\ Stored
  /\ sessions = <<>>
  /\ is_start_node = [n \in Nodes |-> n = "n1"]
  /\ \E values \in ApplyStates, state_changes \in ApplyChangeSets :
       /\ heap = Load(values).heap
       /\ last = [op |-> "input",
                  state_changes |-> state_changes,
                  game_state |-> Load(values).state,
                  raised |-> FALSE,
                  new_state |-> EmptyMap]

\* new_state = choice.apply_state_changes(game_state)
apply_state_changes ==
  /\ last.op = "input"
  /\ LET r == ApplyStateChanges(last.state_changes, last.game_state, heap)
     IN /\ heap' = r.heap
        /\ last' = [last EXCEPT !.op = "apply_state_changes",
                                !.raised = r.raised,
                                !.new_state = IF r.raised THEN EmptyMap
                                              ELSE r.state]
  /\ UNCHANGED <<sessions, is_start_node, nodes, choices, published>>

NextApply == apply_state_changes

SpecApply == InitApply /\ [][NextApply]_vars

----------------------------------------------------------------------------
(* Evaluations of one condition on their own, by Choice (the serialized    *)
(* condition, a dict) and by Condition (the object): the condition and the *)
(* variables mapping (by value) are drawn from the sets below, and the     *)
(* call records how it ended.                                              *)

EvalValues ==
  {NoneV, BoolV(FALSE), BoolV(TRUE), IntV(0), IntV(10), IntV(15),
   StrV(""), StrV("a"), StrV("ab"), StrV("10"),
   ListV(<<>>), ListV(<<StrV("a")>>), ListV(<<IntV(10)>>)}

EvalStates == {EmptyMap} \cup {[gold |-> v] : v \in EvalValues}

\* The operators of the enumeration, and one that is not of it.
Operators == ConditionOperator \cup {"between"}

\* Serialized conditions: with all their keys, without "value", without
\* "operator".
EvalConditions ==
  {Cond("gold", operator, value) :
     operator \in Operators, value \in EvalValues}
    \cup {[variable |-> "gold", operator |-> operator] :
            operator \in Operators}
    \cup {[variable |-> "gold", value |-> value] : value \in EvalValues}

InitEval ==
  /\ Stored
  /\ sessions = <<>>
  /\ heap = EmptyMap
  /\ is_start_node = [n \in Nodes |-> n = "n1"]
  /\ \E condition \in EvalConditions, game_state \in EvalStates :
       last = [op |-> "input",
               condition |-> condition,
               game_state |-> game_state,
               raised |-> FALSE,
               result |-> FALSE]

\* choice._evaluate_conditions([condition], game_state)
evaluate_conditions ==
  /\ last.op = "input"
  /\ LET r == EvaluateConditions(<<last.condition>>, last.game_state)
     IN last' = [last EXCEPT !.op = "evaluate_conditions",
                             !.raised = r.raised,
                             !.result = r.result]
  /\ UNCHANGED <<sessions, heap, is_start_node, nodes, choices, published>>

\* condition.evaluate(game_state), for the Condition with the attributes
\* of the serialized condition
evaluate ==
  /\ last.op = "input"
  /\ DOMAIN last.condition = {"variable", "operator", "value"}
  /\ LET r == Evaluate(last.condition, last.game_state)
     IN last' = [last EXCEPT !.op = "evaluate",
                             !.raised = r.raised,
                             !.result = r.result]
  /\ UNCHANGED <<sessions, heap, is_start_node, nodes, choices, published>>

NextEval == evaluate_conditions \/ evaluate

SpecEval == InitEval /\ [][NextEval]_vars

----------------------------------------------------------------------------
(* Evaluations of a list of conditions, by Choice.is_available on the      *)
(* serialized conditions and by evaluate_conditions_list on the Condition  *)
(* objects made from them.                                                 *)

\* The length of the lists of conditions.
MaxConditions == 2

\* Serialized conditions: two comparisons, one of them false in any state;
\* a containment test, which raises TypeError on an int; an operator that
\* is not of the enumeration; a condition without "operator"; a test of
\* presence.
ListConditions ==
  {Cond("gold", "gte", IntV(10)),
   Cond("gold", "lt", IntV(10)),
   Cond("gold", "contains", StrV("a")),
   Cond("gold", "between", IntV(0)),
   [variable |-> "gold", value |-> IntV(0)],
   Cond("tags", "exists", NoneV)}

ConditionLists ==
  UNION {[1..n -> ListConditions] : n \in 0..MaxConditions}

ListStates ==
  {EmptyMap, [gold |-> IntV(0)], [gold |-> IntV(15)], [gold |-> StrV("a")],
   [gold |-> IntV(0), tags |-> ListV(<<>>)]}

InitConditions ==
  /\ Stored
  /\ sessions = <<>>
  /\ heap = EmptyMap
  /\ is_start_node = [n \in Nodes |-> n = "n1"]
  /\ \E conditions \in ConditionLists, game_state \in ListStates :
       last = [op |-> "input",
               conditions |-> conditions,
               game_state |-> game_state,
               raised |-> FALSE,
               result |-> FALSE]

\* choice.is_available(game_state), for a choice with these conditions
is_available ==
  /\ last.op = "input"
  /\ LET r == IsAvailable(last.conditions, last.game_state)
     IN last' = [last EXCEPT !.op = "is_available",
                             !.raised = r.raised,
                             !.result = r.result]
  /\ UNCHANGED <<sessions, heap, is_start_node, nodes, choices, published>>

\* evaluate_conditions_list(conditions_from_json_list(conditions), game_state)
evaluate_conditions_list ==
  /\ last.op = "input"
  /\ LET r == EvaluateConditionsList(ConditionsFromJsonList(last.conditions),
                                     last.game_state)
     IN last' = [last EXCEPT !.op = "evaluate_conditions_list",
                             !.raised = r.raised,
                             !.result = r.result]
  /\ UNCHANGED <<sessions, heap, is_start_node, nodes, choices, published>>

NextConditions == is_available \/ evaluate_conditions_list

SpecConditions == InitConditions /\ [][NextConditions]_vars

----------------------------------------------------------------------------
(* Validation and publication of a project, and the choice of its start    *)
(* node, on stored graphs of three nodes: the project and the flags of     *)
(* each node, the target of the one choice of each node, and the published *)
(* flag of the first project are drawn from the sets below.                *)

GraphNodes == {"n1", "n2", "n3"}

\* The rows of game_nodes: n1 and n2 belong to the first project, n3 to
\* either; n2 and n3 can be end nodes.
GraphRows ==
  {r \in [GraphNodes -> [project_id : Projects, is_end_node : BOOLEAN]] :
     /\ r["n1"].project_id = "p1" /\ r["n2"].project_id = "p1"
     /\ ~r["n1"].is_end_node}

\* The choice of node n leading to target (NoNode: to the end of the game).
ChoiceTo(n, target) ==
  [node_id |-> n, target_node_id |-> target, display_order |-> 1,
   conditions |-> <<>>, state_changes |-> <<>>]

\* The rows of choices: one choice for each node; the choice of n1 leads
\* to n2 or ends the game, the others lead anywhere.
GraphChoices ==
  {[c1 |-> ChoiceTo("n1", t1), c2 |-> ChoiceTo("n2", t2),
    c3 |-> ChoiceTo("n3", t3)] :
     t1 \in {"n2", NoNode}, t2 \in GraphNodes \cup {NoNode},
     t3 \in GraphNodes \cup {NoNode}}

InitProject ==
  /\ nodes \in GraphRows
  /\ choices \in GraphChoices
  /\ published \in {[p1 |-> b, p2 |-> FALSE] : b \in BOOLEAN}
  /\ is_start_node \in [GraphNodes -> BOOLEAN]
  /\ sessions = <<>>
  /\ heap = EmptyMap
  /\ last = Called("init", 0, "", "ok", <<>>)

\* Project.get_end_nodes
GetEndNodes(project_id) ==
  {n \in Nodes : NodeProject[n] = project_id /\ is_end_node[n]}

\* The orders in which a query without order_by can return the nodes of a
\* project.
AllNodes(project_id) ==
  LET rows == {n \in Nodes : NodeProject[n] = project_id}
  IN {q \in [1..Cardinality(rows) -> rows] :
        \A j, k \in DOMAIN q : j # k => q[j] # q[k]}

\* The targets collected from the choices of every stored node.
TargetNodeIdsAnyProject(all_nodes) ==
  {choices[c].target_node_id :
     c \in {x \in DOMAIN choices : choices[x].target_node_id # NoNode}}

\* target_node_ids of validate_structure: the targets of the choices of
\* the nodes of all_nodes.
TargetNodeIds(all_nodes) ==
  {choices[c].target_node_id :
     c \in {x \in DOMAIN choices :
              /\ \E k \in DOMAIN all_nodes : choices[x].node_id = all_nodes[k]
              /\ choices[x].target_node_id # NoNode}}

\* The message for a node without incoming choice; the title of a node is
\* its id.
Unreachable(n) == "Node '" \o n \o "' is unreachable from other nodes"

\* validate_structure asking for one start node, as its message says.
ValidateStructureExactlyOne(project_id, all_nodes) ==
  LET target_node_ids == TargetNodeIds(all_nodes)
      orphans == SelectSeq(all_nodes,
                   LAMBDA n : ~is_start_node[n] /\ n \notin target_node_ids)
  IN (IF Cardinality(GetStartNode(project_id)) # 1
        THEN <<"Project must have exactly one start node">> ELSE <<>>)
     \o (IF GetEndNodes(project_id) = {}
           THEN <<"Project must have at least one end node">> ELSE <<>>)
     \o [k \in 1..Len(orphans) |-> Unreachable(orphans[k])]

\* Project.validate_structure, with all_nodes the list its query returned.
ValidateStructure(project_id, all_nodes) ==
  LET target_node_ids == TargetNodeIds(all_nodes)
      orphans == SelectSeq(all_nodes,
                   LAMBDA n : ~is_start_node[n] /\ n \notin target_node_ids)
  IN (IF GetStartNode(project_id) = {}
        THEN <<"Project must have exactly one start node">> ELSE <<>>)
     \o (IF GetEndNodes(project_id) = {}
           THEN <<"Project must have at least one end node">> ELSE <<>>)
     \o [k \in 1..Len(orphans) |-> Unreachable(orphans[k])]

\* project.validate_structure(session)
validate_structure(project_id) ==
  /\ \E all_nodes \in AllNodes(project_id) :
       last' = Called("validate_structure", 0, project_id, "ok",
                      ValidateStructure(project_id, all_nodes))
  /\ UNCHANGED <<sessions, heap, is_start_node, nodes, choices, published>>

\* publish that publishes whatever the validation says.
publish_unchecked(project_id) ==
  /\ \E all_nodes \in AllNodes(project_id) :
       last' = Called("publish", 0, project_id, "ok",
                      ValidateStructure(project_id, all_nodes))
  /\ published' = [published EXCEPT ![project_id] = TRUE]
  /\ UNCHANGED <<sessions, heap, is_start_node, nodes, choices>>

\* Project.publish
publish(project_id) ==
  /\ \E all_nodes \in AllNodes(project_id) :
       LET errors == ValidateStructure(project_id, all_nodes)
       IN /\ published' = IF errors = <<>>
                             THEN [published EXCEPT ![project_id] = TRUE]
                             ELSE published
          /\ last' = Called("publish", 0, project_id, "ok", errors)
  /\ UNCHANGED <<sessions, heap, is_start_node, nodes, choices>>

NextProject ==
  \/ \E project_id \in Projects : validate_structure(project_id)
  \/ \E project_id \in Projects : publish(project_id)
  \/ \E n \in Nodes : set_as_start_node(n)

SpecProject == InitProject /\ [][NextProject]_vars

----------------------------------------------------------------------------
(* Cloning a choice.  The entries of Choice.conditions and the structured  *)
(* entries of Choice.state_changes are dict objects: here a cell of `heap` *)
(* holds a dict, and the list and the mapping of a choice hold references  *)
(* to the cells.  The caller of clone can then assign to a key of one of   *)
(* these dicts, through the original or through the clone.                 *)

\* The dicts of the original choice: two conditions, one structured change.
CloneHeap ==
  [a \in 1..3 |->
     CASE a = 1 -> Cond("gold", "gte", IntV(1))
       [] a = 2 -> Cond("tags", "contains", StrV("a"))
       [] a = 3 -> Op("add", IntV(1))]

\* The original choice, "c1".
CloneChoices ==
  {[c1 |-> [node_id |-> "n1", text |-> text, target_node_id |-> target,
            display_order |-> display_order, conditions |-> conditions,
            state_changes |-> state_changes]] :
     text \in {"Open the door"},
     target \in {"n2", NoNode},
     display_order \in {0, 2},
     conditions \in {<<>>, <<RefV(1)>>, <<RefV(1), RefV(2)>>},
     state_changes \in {<<>>, <<Item("gold", RefV(3))>>,
                        <<Item("gold", RefV(3)), Item("name", StrV("a"))>>}}

\* The values a caller assigns to the key "value" of a dict.
CloneValues == {IntV(1), IntV(2)}

InitClone ==
  /\ nodes = StoredNodes
  /\ published = [p \in Projects |-> FALSE]
  /\ choices \in CloneChoices
  /\ heap = CloneHeap
  /\ sessions = <<>>
  /\ is_start_node = [n \in Nodes |-> n = "n1"]
  /\ last = Called("init", 0, "", "ok", <<>>)

\* The Choice built by Choice.clone: list.copy() and dict.copy() make a new
\* list and a new mapping that hold the same dict objects.
Clone(self, new_node_id) ==
  [node_id |-> new_node_id,
   text |-> self.text,
   target_node_id |-> self.target_node_id,
   display_order |-> self.display_order,
   conditions |-> IF self.conditions # <<>> THEN self.conditions ELSE <<>>,
   state_changes |->
     IF self.state_changes # <<>> THEN self.state_changes ELSE <<>>]

\* choice.clone(session, new_node_id); the clone is "c2"
clone(c, new_node_id) ==
  /\ "c2" \notin DOMAIN choices
  /\ choices' = [x \in DOMAIN choices \cup {"c2"} |->
                   IF x = "c2" THEN Clone(choices[c], new_node_id)
                   ELSE choices[x]]
  /\ last' = Called("clone", 0, c, "ok", <<>>)
  /\ UNCHANGED <<sessions, heap, is_start_node, nodes, published>>

\* choice.conditions[k]["value"] = value, by the caller
set_condition_value(c, k, value) ==
  /\ k \in DOMAIN choices[c].conditions
  /\ heap' = [heap EXCEPT ![choices[c].conditions[k].a].value = value]
  /\ last' = Called("set_condition_value", 0, c, "ok", <<>>)
  /\ UNCHANGED <<sessions, is_start_node, nodes, choices, published>>

\* choice.state_changes[variable]["value"] = value, by the caller, for the
\* k-th entry of the mapping when it is a structured change
set_change_value(c, k, value) ==
  /\ k \in DOMAIN choices[c].state_changes
  /\ choices[c].state_changes[k].change.t = "ref"
  /\ heap' = [heap EXCEPT ![choices[c].state_changes[k].change.a].value = value]
  /\ last' = Called("set_change_value", 0, c, "ok", <<>>)
  /\ UNCHANGED <<sessions, is_start_node, nodes, choices, published>>

NextClone ==
  \/ \E c \in DOMAIN choices, new_node_id \in Nodes : clone(c, new_node_id)
  \/ \E c \in DOMAIN choices, k \in 1..2, value \in CloneValues :
       set_condition_value(c, k, value)
  \/ \E c \in DOMAIN choices, k \in 1..2, value \in CloneValues :
       set_change_value(c, k, value)

SpecClone == InitClone /\ [][NextClone]_vars

----------------------------------------------------------------------------
(* Conversions between a serialized condition (a dict) and a Condition,    *)
(* one after the other: from a dict and back, from a Condition and back.   *)

JsonValues == {NoneV, IntV(0), StrV("a"), ListV(<<>>)}

\* Serialized conditions: with the four keys, without "description", and
\* without "operator".
JsonDicts ==
  {[variable |-> "gold", operator |-> operator, value |-> value,
    description |-> description] :
     operator \in Operators, value \in JsonValues,
     description \in {NoneV, StrV("a")}}
    \cup {Cond("gold", operator, value) :
            operator \in Operators, value \in JsonValues}
    \cup {[variable |-> "gold", value |-> value, description |-> StrV("a")] :
            value \in JsonValues}

\* Condition objects: the operator is a member of the enumeration.
JsonConditions ==
  [variable : {"gold"}, operator : ConditionOperator, value : JsonValues,
   description : {NoneV, StrV("a")}]

\* last.given is the dict or the Condition the calls started from, last.now
\* the result of the calls made so far, last.is what it is.
InitJson ==
  /\ Stored
  /\ sessions = <<>>
  /\ heap = EmptyMap
  /\ is_start_node = [n \in Nodes |-> n = "n1"]
  /\ \/ \E data \in JsonDicts :
          last = [op |-> "input", given |-> data, now |-> data,
                  is |-> "dict", calls |-> 0]
     \/ \E condition \in JsonConditions :
          last = [op |-> "input", given |-> condition, now |-> condition,
                  is |-> "Condition", calls |-> 0]

\* Condition.from_json_dict(data)
from_json_dict ==
  /\ last.is = "dict" /\ last.calls < 2
  /\ last' = [last EXCEPT !.op = "from_json_dict",
                          !.now = FromJsonDict(last.now),
                          !.is = "Condition",
                          !.calls = @ + 1]
  /\ UNCHANGED <<sessions, heap, is_start_node, nodes, choices, published>>

\* condition.to_json_dict()
to_json_dict ==
  /\ last.is = "Condition" /\ last.calls < 2
  /\ last' = [last EXCEPT !.op = "to_json_dict",
                          !.now = ToJsonDict(last.now),
                          !.is = "dict",
                          !.calls = @ + 1]
  /\ UNCHANGED <<sessions, heap, is_start_node, nodes, choices, published>>

NextJson == from_json_dict \/ to_json_dict

SpecJson == InitJson /\ [][NextJson]_vars

----------------------------------------------------------------------------
(* Properties of the session state machine.                                *)

\* Session s as a caller observes it after the step.
ViewNext(s) == View(sessions', heap', s)

ViewNow(s) == View(sessions, heap, s)

\* All the conditions of choice c hold under the variables of session sid.
Satisfied(c, sid) ==
  LET r == EvaluateConditions(ChoiceTable[c].conditions,
                              Deref(sessions[sid].variables, heap))
  IN ~r.raised /\ r.result

\* The step is a call of op on session sid.
CallOn(op, sid) == last'.op = op /\ last'.sid = sid

\* C1: make_choice with a choice whose conditions are not all satisfied by
\* the session's variables fails with an error, and the session's
\* variables, history, current node and completed flag are as before.
C1_UnavailableChoiceRejected ==
  [][\A sid \in DOMAIN sessions, c \in Choices :
       (CallOn("make_choice", sid) /\ last'.arg = c /\ ~Satisfied(c, sid))
       => /\ last'.status # "ok"
          /\ ViewNext(sid) = ViewNow(sid)]_vars

C1_Witness ==
  /\ last.op = "make_choice"
  /\ last.status = "unavailable"
  /\ ~Satisfied(last.arg, last.sid)

\* C2: whenever make_choice fails, for whatever reason, the session's
\* variables (with the contents of their lists), history, current node and
\* completed flag are unchanged.
C2_FailedChoiceChangesNothing ==
  [][\A sid \in DOMAIN sessions :
       (CallOn("make_choice", sid) /\ last'.status # "ok")
       => ViewNext(sid) = ViewNow(sid)]_vars

\* C3: the history is append-only: a successful make_choice appends the
\* id of the choice, a failed make_choice, get_available_choices and
\* create_save_point leave it as it is, and only restart_game shortens it,
\* to the empty history.
C3_HistoryAppendOnly ==
  [][\A s \in DOMAIN sessions :
       LET old == sessions[s].choice_history
           new == sessions'[s].choice_history
       IN /\ (CallOn("make_choice", s) /\ last'.status = "ok")
               => new = Append(old, last'.arg)
          /\ (\/ last'.op = "make_choice" /\ last'.status # "ok"
              \/ last'.op \in {"get_available_choices", "create_save_point"})
               => new = old
          /\ Len(new) < Len(old)
               => CallOn("restart_game", s) /\ new = <<>>]_vars

C3_Witness ==
  /\ last.op = "make_choice"
  /\ last.status = "ok"
  /\ Len(sessions[last.sid].choice_history) >= 2
  /\ sessions[last.sid].choice_history[1] # last.arg

\* C4: in every reachable session, completed is true exactly when the
\* current node is null.
C4_CompletedIffNoCurrentNode ==
  \A s \in DOMAIN sessions :
    (sessions[s].completed = "Y") <=> (sessions[s].current_node_id = NoNode)

\* C5: a successful make_choice(choice) on an active session sets the
\* current node to the choice's target, the variables to the result of
\* applying the choice's state changes to the previous variables, and
\* lengthens the history by one; without a target the current node becomes
\* null and completed true; with a target completed stays false, whatever
\* the is_end flag of the target.
C5_SuccessfulChoice ==
  [][\A sid \in DOMAIN sessions, c \in Choices :
       (/\ CallOn("make_choice", sid) /\ last'.arg = c
        /\ last'.status = "ok"
        /\ sessions[sid].completed = "N"
        /\ sessions[sid].current_node_id # NoNode)
       => LET target == ChoiceTable[c].target_node_id
              applied == ApplyValue(ChoiceTable[c].state_changes,
                                    ViewNow(sid).variables)
          IN /\ ViewNext(sid).current_node_id = target
             /\ ~applied.raised
             /\ ViewNext(sid).variables = applied.state
             /\ Len(ViewNext(sid).choice_history)
                  = Len(ViewNow(sid).choice_history) + 1
             /\ ViewNext(sid).completed = IF target = NoNode THEN "Y" ELSE "N"
             /\ ViewNext(sid).project_id = ViewNow(sid).project_id
             /\ ViewNext(sid).player_id = ViewNow(sid).player_id]_vars

C5_Witness ==
  /\ last.op = "make_choice"
  /\ last.status = "ok"
  /\ ChoiceTable[last.arg].target_node_id # NoNode
  /\ is_end_node[ChoiceTable[last.arg].target_node_id]
  /\ sessions[last.sid].completed = "N"
  /\ sessions[last.sid].variables # EmptyMap

\* C6: create_save_point returns a new session with the project, player,
\* current node, variables, history and completed flag of the originating
\* session, and leaves the originating session (and every other) as it was.
C6_SavePointCopies ==
  [][\A sid \in DOMAIN sessions :
       CallOn("create_save_point", sid)
       => /\ Len(sessions') = Len(sessions) + 1
          /\ ViewNext(Len(sessions')) = ViewNow(sid)
          /\ \A s \in DOMAIN sessions : ViewNext(s) = ViewNow(s)]_vars

C6_Witness ==
  /\ last.op = "create_save_point"
  /\ sessions[Len(sessions)].completed = "Y"
  /\ sessions[Len(sessions)].choice_history # <<>>

\* C7: a save point and its origin are independent: no make_choice or
\* restart_game on one session changes the variables (with the contents of
\* their lists) or the history of another.  Two sessions made by
\* create_new_game hold nothing in common, so the other session here is a
\* save point of the one called, or its origin.
C7_SavePointIndependent ==
  [][\A sid \in DOMAIN sessions, s \in DOMAIN sessions :
       (/\ last'.op \in {"make_choice", "restart_game"}
        /\ last'.sid = sid
        /\ s # sid)
       => /\ ViewNext(s).variables = ViewNow(s).variables
          /\ ViewNext(s).choice_history = ViewNow(s).choice_history]_vars

\* The nodes of project p flagged is_start.
StartNodesOf(p) == {n \in Nodes : NodeProject[n] = p /\ is_start_node[n]}

\* C8: restart_game on a session whose project has a start node sets the
\* current node to a start node of the project, the variables and the
\* history to empty and completed to false, and keeps project and player;
\* without a start node it fails and leaves the session as it was.
C8_Restart ==
  [][\A sid \in DOMAIN sessions :
       CallOn("restart_game", sid)
       => IF StartNodesOf(sessions[sid].project_id) # {}
            THEN /\ last'.status = "ok"
                 /\ ViewNext(sid) =
                      [project_id |-> sessions[sid].project_id,
                       player_id |-> sessions[sid].player_id,
                       current_node_id |-> sessions'[sid].current_node_id,
                       variables |-> EmptyMap,
                       choice_history |-> <<>>,
                       completed |-> "N"]
                 /\ sessions'[sid].current_node_id
                      \in StartNodesOf(sessions[sid].project_id)
            ELSE /\ last'.status = "no_start_node"
                 /\ ViewNext(sid) = ViewNow(sid)]_vars

C8_Witness ==
  /\ last.op = "restart_game"
  /\ last.status = "no_start_node"
  /\ sessions[last.sid].choice_history # <<>>

\* C9: create_new_game on a project that has a start node yields a session
\* whose current node is a node of that project flagged is_start, with
\* empty variables, empty history and completed false; on a project
\* without a start node it fails with 'no start node' and creates no
\* session.
C9_CreateNewGame ==
  [][\A p \in Projects :
       (last'.op = "create_new_game" /\ last'.arg = p)
       => IF StartNodesOf(p) # {}
            THEN /\ last'.status = "ok"
                 /\ last'.sid = Len(sessions) + 1
                 /\ Len(sessions') = Len(sessions) + 1
                 /\ sessions'[last'.sid].project_id = p
                 /\ sessions'[last'.sid].current_node_id \in StartNodesOf(p)
                 /\ sessions'[last'.sid].variables = EmptyMap
                 /\ sessions'[last'.sid].choice_history = <<>>
                 /\ sessions'[last'.sid].completed = "N"
                 /\ \A s \in DOMAIN sessions : ViewNext(s) = ViewNow(s)
            ELSE /\ last'.status = "no_start_node"
                 /\ sessions' = sessions]_vars

C9_Witness ==
  /\ last.op = "create_new_game"
  /\ last.status = "ok"
  /\ Len(sessions) = 2
  /\ sessions[2].current_node_id = "n2"

RECURSIVE InsertByOrder(_, _)
\* q, sorted by display_order, with c put after the choices of the same or
\* a lower display_order.
InsertByOrder(q, c) ==
  IF q = <<>> THEN <<c>>
  ELSE IF ChoiceTable[Head(q)].display_order <= ChoiceTable[c].display_order
    THEN <<Head(q)>> \o InsertByOrder(Tail(q), c)
  ELSE <<c>> \o q

RECURSIVE SortByOrder(_)
\* q in ascending display_order, equal display_orders in the order of q.
SortByOrder(q) ==
  IF q = <<>> THEN <<>>
  ELSE InsertByOrder(SortByOrder(SubSeq(q, 1, Len(q) - 1)), q[Len(q)])

\* C10: get_available_choices returns exactly the choices of the current
\* node whose conditions all hold under the current variables, in
\* ascending display_order, ties in insertion order.
C10_AvailableSortedByDisplayOrder ==
  \A sid \in DOMAIN sessions :
    (/\ last.op = "get_available_choices" /\ last.sid = sid
     /\ last.status = "ok"
     /\ sessions[sid].current_node_id # NoNode)
    => last.out = SortByOrder(SelectSeq(NodeChoices[sessions[sid].current_node_id],
                                        LAMBDA c : Satisfied(c, sid)))

\* C11: get_available_choices is a read-only, repeatable query: a call
\* leaves every session (variables, history, current node, completed flag)
\* and the graph as they were, and a call that directly follows a call on
\* the same session ends the same way with the same ordered list.
C11_AvailableChoicesReadOnly ==
  [][\A sid \in DOMAIN sessions :
       CallOn("get_available_choices", sid)
       => /\ DOMAIN sessions' = DOMAIN sessions
          /\ \A s \in DOMAIN sessions : ViewNext(s) = ViewNow(s)
          /\ is_start_node' = is_start_node
          /\ (last.op = "get_available_choices" /\ last.sid = sid)
               => (last'.status = last.status /\ last'.out = last.out)]_vars

C11_Witness ==
  /\ last.op = "get_available_choices"
  /\ last.status = "ok"
  /\ sessions[last.sid].current_node_id # NoNode
  /\ sessions[last.sid].variables # EmptyMap
  /\ last.out # <<>>
  /\ Len(last.out) < Len(NodeChoices[sessions[last.sid].current_node_id])

----------------------------------------------------------------------------
(* Properties of Choice.apply_state_changes.                               *)

\* The step is a call of apply_state_changes.
Applies == last.op = "input" /\ last'.op = "apply_state_changes"

\* The caller's mapping by value, before and after the step.
GivenBefore == Deref(last.game_state, heap)

GivenAfter == Deref(last.game_state, heap')

\* The mapping returned by the step, by value.
Returned == Deref(last'.new_state, heap')

\* The call applies the single structured change {operation, value} to
\* variable.
Changing(variable, operation, value) ==
  last.state_changes = <<Item(variable, Op(operation, value))>>

\* C12: apply_state_changes never mutates the mapping passed in: after
\* the call the caller's mapping, and every value inside it (the contents
\* of its lists), are what they were before.
C12_ApplyLeavesInputAlone ==
  [][Applies => GivenAfter = GivenBefore]_vars

\* C13: add, subtract and multiply with a numeric value v store cur + v,
\* cur - v and cur * v, where cur is the variable's current number, taken
\* as 0 when the variable is absent or null.
C13_Arithmetic ==
  [][\A variable \in ApplyVariables, v \in {5, 2} :
       LET absent == variable \notin DOMAIN GivenBefore
           cur == IF absent \/ GivenBefore[variable] = NoneV THEN 0
                  ELSE GivenBefore[variable].i
           Stores(n) == ~last'.raised /\ Returned[variable] = IntV(n)
       IN (/\ Applies
           /\ absent \/ GivenBefore[variable].t \in {"null", "int"})
          => /\ Changing(variable, "add", IntV(v)) => Stores(cur + v)
             /\ Changing(variable, "subtract", IntV(v)) => Stores(cur - v)
             /\ Changing(variable, "multiply", IntV(v)) => Stores(cur * v)]_vars

C13_Witness ==
  /\ last.op = "apply_state_changes"
  /\ last.state_changes = <<Item("gold", Op("add", IntV(5)))>>
  /\ last.game_state = [gold |-> IntV(10)]
  /\ last.new_state = [gold |-> IntV(15)]

\* C14: append of v to x gives x = [v] when x is absent, the old list with
\* v at its end when x holds a list, and leaves x as it was, without
\* raising, when x is present and not a list (null included).
C14_Append ==
  [][\A variable \in ApplyVariables, v \in OpValues :
       (Applies /\ Changing(variable, "append", v))
       => /\ ~last'.raised
          /\ variable \in DOMAIN Returned
          /\ Returned[variable] =
               IF variable \notin DOMAIN GivenBefore THEN ListV(<<v>>)
               ELSE IF GivenBefore[variable].t = "list"
                 THEN ListV(Append(GivenBefore[variable].l, v))
               ELSE GivenBefore[variable]]_vars

C14_Witness ==
  /\ last.op = "apply_state_changes"
  /\ last.state_changes = <<Item("tags", Op("append", StrV("a")))>>
  /\ "tags" \in DOMAIN last.game_state
  /\ last.game_state["tags"] = NoneV
  /\ ~last.raised
  /\ last.new_state["tags"] = NoneV

\* C15: an operation outside set, add, subtract, multiply, append and
\* remove, a remove on a variable that is absent or not a list, and a
\* remove of a value the list does not hold leave the variable as it was
\* and raise nothing; a remove of a value the list holds deletes its first
\* occurrence and nothing else.
C15_SilentNoOps ==
  [][\A variable \in ApplyVariables, v \in OpValues :
       LET absent == variable \notin DOMAIN GivenBefore
           Same == /\ ~last'.raised
                   /\ (variable \in DOMAIN Returned) = ~absent
                   /\ ~absent => Returned[variable] = GivenBefore[variable]
           q == GivenBefore[variable].l
           hits == {k \in 1..Len(q) : PyEq(q[k], v)}
       IN Applies
          => /\ Changing(variable, "toggle", v) => Same
             /\ Changing(variable, "remove", v)
                  => IF absent \/ GivenBefore[variable].t # "list" THEN Same
                     ELSE IF hits = {} THEN Same
                     ELSE /\ ~last'.raised
                          /\ \E k \in hits :
                               /\ \A j \in hits : k <= j
                               /\ Returned[variable] =
                                    ListV([j \in 1..(Len(q) - 1) |->
                                             IF j < k THEN q[j] ELSE q[j + 1]])]_vars

C15_Witness ==
  /\ last.op = "apply_state_changes"
  /\ last.state_changes = <<Item("tags", Op("remove", StrV("a")))>>
  /\ ~last.raised
  /\ Deref(last.new_state, heap) =
       [tags |-> ListV(<<StrV("b"), StrV("a")>>)]

----------------------------------------------------------------------------
(* Properties of the evaluation of a condition.                            *)

\* An evaluation, by either evaluator, has ended in this state.
Evaluated == last.op \in {"evaluate_conditions", "evaluate"}

\* The operator, the expected value and the current value of the
\* evaluation, as the code reads them (a missing key reads as its default).
OperatorOf == Get(last.condition, "operator", "eq")

ExpectedOf == Get(last.condition, "value", NoneV)

CurrentOf == Get(last.game_state, last.condition.variable, NoneV)

\* C16: the evaluation of a condition never raises: whatever the operator,
\* the expected value and the current value, it returns true or false.
C16_EvaluationNeverRaises ==
  Evaluated => ~last.raised

\* Choice c carries a condition whose operator is not of the enumeration.
HasUnknownOperator(c) ==
  \E k \in 1..Len(ChoiceTable[c].conditions) :
    ChoiceTable[c].conditions[k].operator \notin ConditionOperator

\* C17: a condition whose operator is not one of the twelve evaluates to
\* false for every state, with either evaluator; a choice carrying one is
\* never returned as available and never accepted by make_choice, which
\* leaves the session as it was.
C17_UnknownOperatorIsFalse ==
  [][/\ (last'.op = "make_choice" /\ HasUnknownOperator(last'.arg))
          => /\ last'.status # "ok"
             /\ ViewNext(last'.sid) = ViewNow(last'.sid)
             /\ LET conditions == ChoiceTable[last'.arg].conditions
                IN \A k \in 1..Len(conditions), st \in EvalStates :
                     conditions[k].operator \notin ConditionOperator
                     => /\ EvaluateCondition(conditions[k], st) = Ok(FALSE)
                        /\ Evaluate(conditions[k], st) = Ok(FALSE)
     /\ last'.op = "get_available_choices"
          => \A k \in 1..Len(last'.out) : ~HasUnknownOperator(last'.out[k])]_vars

C17_Witness ==
  /\ last.op = "make_choice"
  /\ HasUnknownOperator(last.arg)
  /\ last.status = "unavailable"
  /\ "gold" \in DOMAIN sessions[last.sid].variables

\* a <operator> b on two numbers.
NumRel(operator, a, b) ==
  CASE operator = "gt" -> a > b
    [] operator = "gte" -> a >= b
    [] operator = "lt" -> a < b
    [] operator = "lte" -> a <= b

\* C18: for gt, gte, lt and lte with a numeric expected value, a missing
\* variable gives what the variable set to 0 gives, and a null expected
\* value counts as 0: the result is the comparison of the two numbers, a
\* missing or null one being 0.
C18_MissingIsZero ==
  LET Num(v) == IF v = NoneV THEN 0 ELSE v.i
      absent == last.condition.variable \notin DOMAIN last.game_state
  IN (/\ Evaluated
      /\ OperatorOf \in {"gt", "gte", "lt", "lte"}
      /\ ExpectedOf.t \in {"null", "int"}
      /\ absent \/ CurrentOf.t \in {"null", "int"})
     => /\ ~last.raised
        /\ last.result = NumRel(OperatorOf, Num(CurrentOf), Num(ExpectedOf))

C18_Witness ==
  /\ last.op = "evaluate_conditions"
  /\ last.condition = Cond("gold", "gte", IntV(10))
  /\ last.game_state = EmptyMap
  /\ ~last.raised
  /\ ~last.result

\* C19: exists is true exactly when the variable is a key of the state
\* mapping, whatever is stored under it (null included) and whatever the
\* condition's value; not_exists is its negation.
C19_ExistsIsKeyPresence ==
  LET present == last.condition.variable \in DOMAIN last.game_state
  IN (Evaluated /\ OperatorOf \in {"exists", "not_exists"})
     => /\ ~last.raised
        /\ last.result = (present = (OperatorOf = "exists"))

C19_Witness ==
  /\ last.op = "evaluate"
  /\ last.condition.operator = "exists"
  /\ last.condition.value = IntV(10)
  /\ last.game_state = [gold |-> NoneV]
  /\ last.result

\* The expected value occurs inside the current value: an element of the
\* list, or a substring of the string; a missing or null current value is
\* the empty string.
Occurs(expected, current) ==
  CASE current.t = "list" ->
         \E k \in 1..Len(current.l) : PyEq(expected, current.l[k])
    [] current.t = "str" ->
         expected.t = "str" /\ Substr(expected.s, current.s)
    [] current.t = "null" -> expected = StrV("")
    [] OTHER -> FALSE

\* C20: contains is true exactly when the expected value occurs inside the
\* current value, never the other way round; with a missing or null
\* current value contains is false and not_contains true for every
\* non-empty expected string.
C20_ContainsDirection ==
  /\ (Evaluated /\ OperatorOf = "contains")
       => (last.result <=> Occurs(ExpectedOf, CurrentOf))
  /\ (/\ Evaluated
      /\ CurrentOf = NoneV
      /\ ExpectedOf.t = "str" /\ ExpectedOf.s # "")
       => /\ OperatorOf = "contains" => (~last.raised /\ ~last.result)
          /\ OperatorOf = "not_contains" => (~last.raised /\ last.result)

----------------------------------------------------------------------------
(* Properties of the evaluation of a list of conditions.                   *)

EvaluatedList == last.op \in {"is_available", "evaluate_conditions_list"}

\* The outcome of the evaluator of the last call on a list of serialized
\* conditions.
OutcomeOn(conditions) ==
  IF last.op = "is_available"
    THEN IsAvailable(conditions, last.game_state)
    ELSE EvaluateConditionsList(ConditionsFromJsonList(conditions),
                                last.game_state)

Reversed(q) == [k \in 1..Len(q) |-> q[Len(q) + 1 - k]]

\* C21: a choice is available exactly when every one of its conditions
\* evaluates to true under the state: with no conditions it is available,
\* and otherwise the result is the conjunction of the results of the
\* conditions taken one at a time, the same whatever their order.
C21_AvailableIsConjunction ==
  EvaluatedList =>
    /\ last.conditions = <<>> => ~last.raised /\ last.result
    /\ (~last.raised /\ last.result)
         <=> \A k \in 1..Len(last.conditions) :
               OutcomeOn(<<last.conditions[k]>>) = Ok(TRUE)
    /\ [raised |-> last.raised, result |-> last.result]
         = OutcomeOn(Reversed(last.conditions))

----------------------------------------------------------------------------
(* Properties of validation, publication and the start node.               *)

\* C22: publish returns the list of errors of validate_structure, and
\* sets published exactly when that list is empty; otherwise published
\* keeps its value.  It changes no other project, no node and no choice.
C22_PublishReturnsValidation ==
  [][last'.op = "publish" =>
       LET project_id == last'.arg
       IN /\ \E all_nodes \in AllNodes(project_id) :
               last'.out = ValidateStructure(project_id, all_nodes)
          /\ published'[project_id]
               = (last'.out = <<>> \/ published[project_id])
          /\ \A p \in Projects \ {project_id} : published'[p] = published[p]
          /\ nodes' = nodes
          /\ choices' = choices
          /\ is_start_node' = is_start_node]_vars

\* The second project, not published at first, has been published by a
\* call that returned no error.
C22_Witness ==
  last.op = "publish" /\ last.arg = "p2" /\ last.out = <<>> /\ published["p2"]

\* A validation of a project has returned: last.out is its list of errors.
Validated == last.op \in {"validate_structure", "publish"}

Reported(message) == \E k \in DOMAIN last.out : last.out[k] = message

\* The nodes of project p flagged as start nodes, and as end nodes.
StartFlagged(p) ==
  {n \in DOMAIN nodes : nodes[n].project_id = p /\ is_start_node[n]}

EndFlagged(p) ==
  {n \in DOMAIN nodes : nodes[n].project_id = p /\ nodes[n].is_end_node}

Targeted(n, p) ==
  \E c \in DOMAIN choices :
    /\ nodes[choices[c].node_id].project_id = p
    /\ choices[c].target_node_id = n

\* The nodes reached from the start nodes of project p by following
\* choices, the start nodes included.
RECURSIVE Reached(_)
Reached(seen) ==
  LET more == seen \cup {choices[c].target_node_id :
                           c \in {x \in DOMAIN choices :
                                    /\ choices[x].node_id \in seen
                                    /\ choices[x].target_node_id # NoNode}}
  IN IF more = seen THEN seen ELSE Reached(more)

ReachedFromStart(p) == Reached(StartFlagged(p))

C25_SetAsStartNode ==
  [][/\ last'.op = "set_as_start_node" =>
          LET n == last'.arg
          IN /\ \A m \in DOMAIN nodes :
                  IF nodes[m].project_id = nodes[n].project_id
                    THEN is_start_node'[m] = (m = n)
                    ELSE is_start_node'[m] = is_start_node[m]
             /\ nodes' = nodes
             /\ choices' = choices
             /\ published' = published
     /\ (\A p \in Projects : Cardinality(StartFlagged(p)) <= 1)
          => (\A p \in Projects : Cardinality(StartFlagged(p)') <= 1)]_vars

\* n1 has been made the start node of a project whose three nodes were all
\* flagged, or whose other node was, while the node of the other project
\* keeps its flag.
C25_Witness ==
  /\ last.op = "set_as_start_node" /\ last.arg = "n1"
  /\ nodes["n3"].project_id = "p2" /\ is_start_node["n3"]
  /\ is_start_node["n1"] /\ ~is_start_node["n2"]

----------------------------------------------------------------------------
(* Properties of Choice.clone.                                             *)

\* What a caller reads of choice c in memory h: its fields, with the dicts
\* of its conditions and of its structured changes.
ChoiceView(cs, h, c) ==
  [node_id |-> cs[c].node_id,
   text |-> cs[c].text,
   target_node_id |-> cs[c].target_node_id,
   display_order |-> cs[c].display_order,
   conditions |-> [k \in DOMAIN cs[c].conditions |->
                     h[cs[c].conditions[k].a]],
   state_changes |->
     [k \in DOMAIN cs[c].state_changes |->
        [variable |-> cs[c].state_changes[k].variable,
         change |-> IF cs[c].state_changes[k].change.t = "ref"
                      THEN h[cs[c].state_changes[k].change.a]
                      ELSE cs[c].state_changes[k].change]]]

\* C26: clone gives a choice on the new node with the text, the display
\* order, the target, the conditions and the state changes of the
\* original, and the two are independent: assigning to a field of a
\* condition or of a structured change of one of them leaves the other as
\* it was.
C26_CloneIsDeepCopy ==
  [][/\ last'.op = "clone" =>
          /\ \E n \in Nodes :
               ChoiceView(choices', heap', "c2")
                 = [ChoiceView(choices, heap, last'.arg) EXCEPT !.node_id = n]
          /\ ChoiceView(choices', heap', last'.arg)
               = ChoiceView(choices, heap, last'.arg)
     /\ last'.op \in {"set_condition_value", "set_change_value"} =>
          \A c \in DOMAIN choices \ {last'.arg} :
            ChoiceView(choices', heap', c) = ChoiceView(choices, heap, c)]_vars

----------------------------------------------------------------------------
(* Properties of the conversions of conditions.                            *)

\* C27: a serialized condition goes through from_json_dict and to_json_dict
\* without loss: the dict that comes back has the variable, the operator
\* string, the value and the description of the dict given; and a Condition
\* goes through to_json_dict and from_json_dict without loss.
C27_RoundTrip ==
  last.calls = 2 =>
    IF last.op = "to_json_dict"
      THEN \A key \in DOMAIN last.given : last.now[key] = last.given[key]
      ELSE last.now = last.given

----------------------------------------------------------------------------
(* Properties of the history of a session.                                 *)

\* C28: the history of a session is a walk through the graph from the
\* start node: make_choice succeeds only for a choice of the current node
\* of a session that has not ended, so that in every history the source
\* of each choice is the target of the one before it.
C28_HistoryIsWalk ==
  [][/\ last'.op = "make_choice" /\ last'.status = "ok" =>
          /\ sessions[last'.sid].completed = "N"
          /\ ChoiceTable[last'.arg].node_id
               = sessions[last'.sid].current_node_id
     /\ \A s \in DOMAIN sessions' :
          \A k \in 1..(Len(sessions'[s].choice_history) - 1) :
            ChoiceTable[sessions'[s].choice_history[k + 1]].node_id
              = ChoiceTable[sessions'[s].choice_history[k]].target_node_id]_vars

----------------------------------------------------------------------------
(* Properties of the two evaluators together.                              *)

\* The outcome, on the list and the state of the last call, of the
\* evaluator that was not called.
OtherOutcome ==
  IF last.op = "is_available"
    THEN EvaluateConditionsList(ConditionsFromJsonList(last.conditions),
                                last.game_state)
    ELSE IsAvailable(last.conditions, last.game_state)

\* C29: the two evaluators agree: on a list of serialized conditions and a
\* state, Choice.is_available and evaluate_conditions_list of the
\* Conditions made from the list return the same boolean (here: whenever
\* both return), also when an operator is missing or is not of the
\* enumeration.
C29_EvaluatorsAgree ==
  EvaluatedList /\ ~last.raised /\ ~OtherOutcome.raised
    => last.result = OtherOutcome.result

----------------------------------------------------------------------------
(* The frame of Choice.apply_state_changes.                                *)

\* The variables named by the change set of the call.
Named == {last.state_changes[k].variable : k \in DOMAIN last.state_changes}

\* The k-th entry of the change set applied alone to the prior value of its
\* variable.
Alone(k) ==
  LET variable == last.state_changes[k].variable
  IN ApplyValue(<<last.state_changes[k]>>,
                [x \in DOMAIN GivenBefore \cap {variable} |-> GivenBefore[x]])

\* C30: apply_state_changes touches only the variables named in the change
\* set: a variable that is not named has in the result the value it had,
\* no variable that is not named is added, and the result for a named
\* variable is what its own entry gives on its own prior value; so the
\* call gives the same result with the entries in the opposite order.
C30_OnlyNamedVariables ==
  [][Applies =>
       LET opposite == ApplyValue(Reversed(last.state_changes), GivenBefore)
       IN /\ opposite.raised = last'.raised
          /\ ~last'.raised =>
               /\ \A variable \in DOMAIN GivenBefore \ Named :
                    /\ variable \in DOMAIN Returned
                    /\ Returned[variable] = GivenBefore[variable]
               /\ DOMAIN Returned \subseteq DOMAIN GivenBefore \cup Named
               /\ \A k \in DOMAIN last.state_changes :
                    LET variable == last.state_changes[k].variable
                    IN /\ ~Alone(k).raised
                       /\ variable \in DOMAIN Returned
                            <=> variable \in DOMAIN Alone(k).state
                       /\ variable \in DOMAIN Returned
                            => Returned[variable] = Alone(k).state[variable]
               /\ opposite.state = Returned]_vars

\* A call with two entries has returned, with gold added to and tags
\* appended to.
C30_Witness ==
  /\ last.op = "apply_state_changes" /\ ~last.raised
  /\ last.state_changes = <<Item("tags", Op("append", StrV("a"))),
                            Item("gold", Op("add", IntV(5)))>>
  /\ Deref(last.new_state, heap)
       = [gold |-> IntV(15), tags |-> ListV(<<StrV("a"), StrV("a")>>)]

====
